---- MODULE Spec2Model ----
(***************************************************************************)
(* Schema-per-tenant multi-tenancy of the resource API: the global         *)
(* companies table and email -> company lookup table, the per-company      *)
(* schemas with their users tables, and the request handlers that          *)
(* straddle both (register, login, user creation and deletion, company     *)
(* creation and deletion, the bootstrap script).                           *)
(*                                                                         *)
(* Every request is an independent asynchronous task; a task is suspended  *)
(* at each storage call, so one action is one storage statement (with the  *)
(* Python code that follows it up to the next await).  Statements see the  *)
(* committed state (PostgreSQL READ COMMITTED); every write of the         *)
(* handlers is committed by the CRUD method that issues it.                *)
(*                                                                         *)
(* Modelling notes.                                                        *)
(*  - SET search_path touches only the connection, so acquiring a tenant   *)
(*    session is folded into the step that precedes it.                    *)
(*  - A tenant schema that has its tables is taken to hold a users table,  *)
(*    the table the tenant sessions of register, login and                 *)
(*    get_current_user query (tests/conftest.py inserts its user through   *)
(*    such a session).  The tables create_company_schema does create are   *)
(*    derived from the declarative bases on their own (created_tables).    *)
(*  - The handlers behind get_tenant_db are entered with the tenant        *)
(*    session of the company_id claim of the caller's token                *)
(*    (tenant_claim), the session get_tenant_db is written to hand out.    *)
(*    What get_company_id_from_token makes of a token is modelled on its   *)
(*    own (SpecToken).                                                     *)
(*  - A token is a signed (email, company_id) claim; it stays valid after   *)
(*    the account it was issued for is gone (expiry is not modelled), and  *)
(*    get_current_user decides whether a request that presents it goes     *)
(*    through.                                                             *)
(*  - users.id values are never reused; a new row takes an id that no row  *)
(*    and no request in flight holds.                                      *)
(*  - The dependencies of an authenticated request (get_tenant_db with its  *)
(*    existence guard, get_current_active_user) are resolved in one step.  *)
(*  - A response is delivered before any other request steps: a finished   *)
(*    handler has no further effect on the store.                          *)
(*  - Storage faults are injected where the design names them: the lookup  *)
(*    insert, the compensating user delete, the lookup delete of           *)
(*    delete_user, and the three provisioning steps.                       *)
(***************************************************************************)
EXTENDS Naturals, Sequences, FiniteSets, TLC

\* ---- bounds ----
MaxCompany == 2
MaxUserId == 3
MaxFaults == 1
Requests == {1, 2}
\* the bootstrap script creates the administrator; the requests register the other email
AdminEmails == {"a@x"}
NewEmails == {"b@x"}
Emails == AdminEmails \cup NewEmails
Passwords == {<<1>>, <<2>>}
\* the passwords accounts are created with; login tries every password
NewPasswords == {<<1>>}

Tenants == 1..MaxCompany

\* bcrypt's input ceiling, applied by get_password_hash and verify_password
BcryptMaxBytes == 72

VARIABLES
    companies,      \* ids of the rows of public.companies
    nextCompanyId,  \* the companies.id sequence
    schemas,        \* per company id: "none", "schema" (created, no tables), "tables"
    seeds,          \* per company id: number of reference-data batches inserted
    users,          \* per company id: the rows of its users table
    lookup,         \* public.user_company_lookup: email -> company id, 0 = no row
    faults,         \* storage faults injected so far
    tokens,         \* the access tokens login has issued
    rq,             \* per request slot: the running handler, its locals, its response
    registered,     \* history: email -> the account a successful registration made, until
                    \* delete_user removes a user of that email or its company is dropped
    deleted,        \* history: emails whose user was deleted by a successful delete_user and not registered since
    pool,           \* the engine's connection pool: per connection its search path, and the idle queue
    sessions,       \* per session slot: a session of async_session, its transaction, what it ran
    calls           \* the calls of a function under examination, with what they returned

vars == <<companies, nextCompanyId, schemas, seeds, users, lookup, faults, tokens, rq,
          registered, deleted, pool, sessions, calls>>

\* the state the request handlers of the tenancy model leave alone
aux == <<pool, sessions, calls>>

db == <<companies, nextCompanyId, schemas, seeds, users, lookup>>

\* ---- responses ----
NoResp == [status |-> 0, detail |-> "none"]
Created == [status |-> 201, detail |-> "created"]
NoContent == [status |-> 204, detail |-> "no content"]
CompanyIdRequired == [status |-> 400, detail |-> "company_id is required for registration"]
CompanyNotFound == [status |-> 404, detail |-> "Company not found"]
EmailAlreadyRegistered == [status |-> 400, detail |-> "Email already registered"]
InvalidCredentials == [status |-> 401, detail |-> "Incorrect email or password"]
InactiveUser == [status |-> 400, detail |-> "Inactive user"]
CouldNotValidate == [status |-> 401, detail |-> "Could not validate credentials"]
SchemaNotFound == [status |-> 404, detail |-> "Company schema not found"]
UserNotFound == [status |-> 404, detail |-> "User not found"]
LookupCreationFailed == [status |-> 500, detail |-> "Failed to create user lookup entry"]
ProvisioningFailed == [status |-> 500, detail |-> "Failed to create company schema"]
CompanyNotEmpty == [status |-> 400, detail |-> "Cannot delete company with existing users"]
\* an exception no handler catches: the framework's generic server error
InternalServerError == [status |-> 500, detail |-> "Internal Server Error"]
LoginOk(tok) == [status |-> 200, detail |-> "bearer", token |-> tok]
ExitOk == [status |-> 0, detail |-> "BOOTSTRAP SUCCESSFUL"]
ExitError == [status |-> 1, detail |-> "Error during bootstrap"]

\* ---- security.py ----
Truncate(password) ==
    SubSeq(password, 1, IF Len(password) < BcryptMaxBytes THEN Len(password) ELSE BcryptMaxBytes)

get_password_hash(password) == <<"bcrypt", Truncate(password)>>

verify_password(plain_password, hashed_password) ==
    hashed_password = <<"bcrypt", Truncate(plain_password)>>

\* variant: a token without the tenant claim
create_access_token_without_company(email, company_id) == [sub |-> email, company_id |-> 0]

create_access_token(email, company_id) == [sub |-> email, company_id |-> company_id]

\* the company_id claim login put into the token's payload
tenant_claim(token) == token.company_id

\* ---- database.py ----
schema_exists(cat, company_id) == cat[company_id] # "none"

\* a statement on a tenant table runs only where the schema and its tables exist
TablesReady(cat, company_id) == cat[company_id] = "tables"

\* ---- Python values, as far as get_schema_name tells them apart ----
Int(n) == [type |-> "int", val |-> n, text |-> ""]
Bool(b) == [type |-> "bool", val |-> IF b THEN 1 ELSE 0, text |-> ""]
Float(n) == [type |-> "float", val |-> n, text |-> ""]
Str(chars) == [type |-> "str", val |-> 0, text |-> chars]
None == [type |-> "NoneType", val |-> 0, text |-> ""]

\* bool is a subclass of int
isinstance_int(v) == v.type \in {"int", "bool"}

Digit(d) == <<"0", "1", "2", "3", "4", "5", "6", "7", "8", "9">>[d + 1]

RECURSIVE Decimal(_)
\* str() of a positive int: its decimal digits
Decimal(n) == IF n < 10 THEN <<Digit(n)>> ELSE Append(Decimal(n \div 10), Digit(n % 10))

\* what an f-string puts for a value that passed the validation of get_schema_name
format(v) == IF v.type = "bool" THEN <<"True">> ELSE Decimal(v.val)

ValueError == <<"ValueError">>

\* variant: a schema namer that accepts every int
get_schema_name_unchecked(company_id) ==
    IF ~isinstance_int(company_id) THEN ValueError
    ELSE IF company_id.val <= 0 THEN <<"company_", "0">>
    ELSE <<"company_">> \o format(company_id)

get_schema_name(company_id) ==
    IF ~isinstance_int(company_id) THEN ValueError
    ELSE IF company_id.val <= 0 THEN ValueError
    ELSE <<"company_">> \o format(company_id)

\* ---- security.py decode_access_token, deps.py get_company_id_from_token ----
\* what a call hands back: the value it returned, or the exception it raised
Returned(v) == [raised |-> "", value |-> v]
Raised(e) == [raised |-> e, value |-> 0]

TokenData(email) == [email |-> email]

\* jwt.decode of a token this service signed, then payload.get("sub")
decode_access_token(token) == IF token.sub = "" THEN None ELSE TokenData(token.sub)

\* obj.name
getattr(obj, name) ==
    IF name \in DOMAIN obj THEN Returned(obj[name]) ELSE Raised("AttributeError")

get_company_id_from_token(token) ==
    LET token_data == decode_access_token(token)
    IN  IF token_data = None THEN Raised("HTTPException 401")
        ELSE LET company_id == getattr(token_data, "company_id")
             IN  IF company_id.raised # "" THEN company_id
                 ELSE IF company_id.value = 0 THEN Raised("HTTPException 401")
                 ELSE company_id

\* ---- database.py engine, async_session, get_session, get_tenant_session ----
SessionSlots == {1, 2}

\* the connections the sessions can hold at one time
Connections == 1..Cardinality(SessionSlots)

pool_size == 5
max_overflow == 10

PublicPath == <<"public">>

\* the search path a session is opened for: target 0 is the global session
search_path_of(target) == IF target = 0 THEN PublicPath ELSE get_schema_name(Int(target))

\* no connection is open; a connection the pool opens has the server's default search
\* path, which resolves to public
EmptyPool == [path |-> [c \in Connections |-> PublicPath], idle |-> <<>>, created |-> 0]

\* conn 0: no connection checked out (no transaction); set: the SET search_path of the
\* running transaction, <<>> when it has none; ran: the search path its last statement
\* ran with; committed: the session has committed
\* owner: the request whose dependency or handler obtained the session, 0 outside the
\* request handlers; scope: "dependency" (yielded by get_db to FastAPI) or "handler"
\* (yielded to an async for of the handler); used_by: the requests that ran a statement
\* on it; referenced: the generator that yielded it is still held by its consumer
NoSession == [state |-> "none", target |-> 0, conn |-> 0, set |-> <<>>, ran |-> <<>>,
              committed |-> FALSE, owner |-> 0, scope |-> "", used_by |-> {},
              referenced |-> FALSE]

\* QueuePool._do_get: the connection at the head of the idle queue, else a new one
checkout(pl) == IF pl.idle # <<>> THEN Head(pl.idle) ELSE pl.created + 1

checked_out(pl) ==
    IF pl.idle # <<>> THEN [pl EXCEPT !.idle = Tail(@)]
    ELSE [pl EXCEPT !.created = @ + 1]

\* QueuePool._do_return_conn
checked_in(pl, c) == [pl EXCEPT !.idle = Append(@, c)]

\* the search path a statement of session ss runs with on connection c
effective_path(pl, ss, c) == IF ss.set # <<>> THEN ss.set ELSE pl.path[c]

\* ---- crud_user_company_lookup.py ----
\* variant: a lookup read that finds nothing
get_by_email_none(lk, email) == 0

\* variant: a lookup delete that removes nothing
delete_by_email_skipped(lk, email) == lk

\* variant: a lookup table whose email column is no key
create_entry_accepted_without_key(lk, comps, email, company_id) == company_id \in comps

lookup_get_by_email(lk, email) == lk[email]

count_by_company(lk, company_id) == Cardinality({e \in Emails : lk[e] = company_id})

delete_by_email(lk, email) ==
    IF lookup_get_by_email(lk, email) # 0 THEN [lk EXCEPT ![email] = 0] ELSE lk

\* the INSERT succeeds unless the primary key (email) or the foreign key (company) rejects it
create_entry_accepted(lk, comps, email, company_id) ==
    lk[email] = 0 /\ company_id \in comps

create_entry(lk, email, company_id) == [lk EXCEPT ![email] = company_id]

\* ON DELETE CASCADE of user_company_lookup.company_id
cascade_company(lk, company_id) ==
    [e \in Emails |-> IF lk[e] = company_id THEN 0 ELSE lk[e]]

\* ---- crud_user.py ----
user_get_by_email(rows, email) == {u \in rows : u.email = email}

user_get(rows, id) == {u \in rows : u.id = id}

user_create(rows, id, email, password) ==
    rows \cup {[id |-> id, email |-> email,
                password_hash |-> get_password_hash(password), is_active |-> TRUE]}

user_delete(rows, id) == {u \in rows : u.id # id}

\* CRUDBase.update: the fields the request sets are written to the row
user_update(rows, id, obj_in) ==
    {IF u.id # id THEN u
     ELSE [u EXCEPT !.email = IF "email" \in obj_in.fields THEN obj_in.email ELSE @,
                    !.is_active = IF "is_active" \in obj_in.fields THEN obj_in.is_active ELSE @]
        : u \in rows}

\* the UPDATE succeeds unless the unique index of users.email rejects it
user_update_accepted(rows, id, obj_in) ==
    "email" \in obj_in.fields
        => \A u \in user_get_by_email(rows, obj_in.email) : u.id = id

\* variant: a user found by email alone
authenticate_without_password(rows, email, password) == user_get_by_email(rows, email)

authenticate(rows, email, password) ==
    {u \in user_get_by_email(rows, email) : verify_password(password, u.password_hash)}

\* ---- request slots ----
NoToken == [sub |-> "", company_id |-> 0]
NoAccount == [company_id |-> 0, password |-> <<>>]
\* UserUpdate with no field set
NoUpdate == [fields |-> {}, email |-> "", is_active |-> TRUE]

\* op .. resp are the handler's own state; the fields after resp record what the
\* request observed, for the properties:
\*   cause          why it ended as it did
\*   race           it failed on a row a competing registration of its email wrote
\*   faulted        an injected storage fault hit it
\*   lookup_failed  its lookup insert failed after its tenant user row was written
\*   missing        it was handed a tenant session for a schema that does not exist
\*   seen           the live account of its email when it consulted the lookup table
\*   count          what count_by_company returned to it
\*   post           the postcondition of its operation, evaluated as its last statement ends
\*   after_delete   (login) its email was deleted, and not registered since, when it started
\*   resource, verb, via   (resource CRUD) the endpoint module, its handler, and the
\*                  dependency its db session comes from
\*   log            (create_user) the entries its compensation wrote to the logger
\*   obj_in         (update_user) the request body; email then holds the row's email
\*                  before the update
\*   removed        (delete_user) the company the lookup row it deleted mapped to
\*   dropped        (delete_company) the schema existed when its DROP SCHEMA ran
\*   held           (delete_company) the schema held user rows when its DROP SCHEMA ran
\*   overlap, free, peer   for a registration that overlapped another one of the same
\*                  email, with no delete_user of that email in between: that it did,
\*                  whether the email was free but for the two, and how the other one
\*                  ended ("ok", "race", "env")
Idle == [op |-> "idle", pc |-> "idle", email |-> "", password |-> <<>>, company_id |-> 0,
         user_id |-> 0, session |-> 0, guarded |-> FALSE,
         resp |-> NoResp, cause |-> "", race |-> FALSE, faulted |-> FALSE,
         lookup_failed |-> FALSE, missing |-> FALSE, seen |-> NoAccount, count |-> 0,
         post |-> FALSE, overlap |-> FALSE, free |-> FALSE, peer |-> "",
         after_delete |-> FALSE, resource |-> "", verb |-> "", via |-> "",
         dropped |-> FALSE, held |-> FALSE, log |-> <<>>,
         obj_in |-> NoUpdate, removed |-> 0]

InFlight(r) == r.op # "idle" /\ r.pc # "done"

RegistrationOps == {"register", "create_user"}

\* the registrations of email in flight beside request p
Peers(p, email) ==
    {q \in Requests \ {p} : rq[q].op \in RegistrationOps /\ rq[q].email = email /\ InFlight(rq[q])}

\* no lookup row for email, and no user row but those the registrations in flight wrote
EmailFree(email) ==
    /\ lookup[email] = 0
    /\ \A t \in Tenants : \A u \in user_get_by_email(users[t], email) :
            \E q \in Requests : /\ rq[q].op \in RegistrationOps /\ InFlight(rq[q])
                                 /\ rq[q].session = t /\ rq[q].user_id = u.id

\* the requests in flight that may still write a user row into tenant t
Creators(t) ==
    {q \in Requests : InFlight(rq[q]) /\ rq[q].op \in RegistrationOps \cup {"bootstrap"}
                      /\ rq[q].company_id = t /\ rq[q].user_id = 0}

\* the users.id values of tenant t that a row or a request in flight holds
UsedIds(t) ==
    {u.id : u \in users[t]}
        \cup {rq[q].user_id : q \in {x \in Requests : InFlight(rq[x]) /\ rq[x].session = t}}

NextUserId(t) == CHOOSE id \in 1..MaxUserId : id \notin UsedIds(t) /\ \A j \in 1..(id - 1) : j \in UsedIds(t)

\* the bound on ids leaves one for every request that may ask
IdsLeft(t) == Cardinality(UsedIds(t) \ {0}) + Cardinality(Creators(t)) < MaxUserId

CompanyCreators ==
    {q \in Requests : InFlight(rq[q]) /\ rq[q].op = "create_company" /\ rq[q].company_id = 0}

FaultChoices == IF faults < MaxFaults THEN {TRUE, FALSE} ELSE {FALSE}

\* the handler ends with response resp
Finish(r, resp, cause) == [r EXCEPT !.pc = "done", !.resp = resp, !.cause = cause]

Outcome(r) == IF r.cause = "ok" THEN "ok" ELSE IF r.race THEN "race" ELSE "env"

Responding == \E q \in Requests : rq[q].pc = "done"

Hit(r, fail) == [r EXCEPT !.faulted = @ \/ fail]

\* request p moves to record r
Step(p, r) == [rq EXCEPT ![p] = r]

\* a new request takes the first free slot (the slots are interchangeable)
Free(p) ==
    /\ ~Responding
    /\ rq[p].op = "idle"
    /\ \A q \in Requests : q < p => rq[q].op # "idle"

\* request p is suspended before the statement named pc
At(p, pc) == ~Responding /\ rq[p].pc = pc

\* request p starts a registration of email as record r: it and the registrations of
\* email already in flight are marked as overlapping, and as racing for a free email
\* when the email is free and none of them has failed already; of the earlier
\* registrations a request overlapped, it keeps in mind only one that succeeded
StartRegistration(p, email, r) ==
    LET peers == Peers(p, email)
        free == EmailFree(email) /\ \A q \in peers : ~rq[q].lookup_failed
    IN  [q \in Requests |->
            IF q = p THEN [r EXCEPT !.overlap = peers # {}, !.free = free]
            ELSE IF q \in peers
                 THEN [rq[q] EXCEPT !.overlap = TRUE, !.free = free,
                                    !.peer = IF @ = "ok" THEN @ ELSE ""]
            ELSE rq[q]]

\* request p, deleting a user of email, moves to record r; the registrations of email in
\* flight no longer count as a pair racing for a free email
StepDeleting(p, email, r) ==
    [q \in Requests |->
        IF q = p THEN r
        ELSE IF q \in Peers(p, email)
             THEN [rq[q] EXCEPT !.overlap = FALSE, !.free = FALSE, !.peer = ""]
        ELSE rq[q]]

Fresh(p, op) == [Idle EXCEPT !.op = op]

Inject(fail) == faults' = IF fail THEN faults + 1 ELSE faults

Init ==
    /\ companies = {}
    /\ nextCompanyId = 1
    /\ schemas = [t \in Tenants |-> "none"]
    /\ seeds = [t \in Tenants |-> 0]
    /\ users = [t \in Tenants |-> {}]
    /\ lookup = [e \in Emails |-> 0]
    /\ faults = 0
    /\ tokens = {}
    /\ rq = [p \in Requests |-> Idle]
    /\ registered = [e \in Emails |-> NoAccount]
    /\ deleted = {}
    /\ pool = EmptyPool
    /\ sessions = [s \in SessionSlots |-> NoSession]
    /\ calls = <<>>

\* ---- deps.py ----
\* get_tenant_db (the existence guard, then the tenant session of the token's company) and
\* get_current_active_user through that session: the response that ends the request, or
\* NoResp when the handler body runs
dependencies(token) ==
    LET company_id == tenant_claim(token)
        found == user_get_by_email(users[company_id], token.sub)
    IN  IF ~schema_exists(schemas, company_id) THEN SchemaNotFound
        ELSE IF ~TablesReady(schemas, company_id) THEN InternalServerError
        ELSE IF found = {} THEN CouldNotValidate
        ELSE IF \E u \in found : ~u.is_active THEN InactiveUser
        ELSE NoResp

\* r is the handler's record once its dependencies are resolved
Depends(r, token) ==
    IF dependencies(token) # NoResp THEN Finish(r, dependencies(token), "dependencies")
    ELSE r

\* ---- auth.py register, users.py create_user ----
Register(p, email, password, company_id) ==
    /\ Free(p)
    /\ company_id \in Tenants => IdsLeft(company_id)
    /\ LET r == [Fresh(p, "register") EXCEPT !.email = email, !.password = password,
                     !.company_id = company_id]
       IN  rq' = IF company_id = 0
                 THEN Step(p, Finish(r, CompanyIdRequired, "validation"))
                 ELSE IF company_id \notin companies
                 THEN Step(p, Finish(r, CompanyNotFound, "company_missing"))
                 ELSE StartRegistration(p, email, [r EXCEPT !.pc = "lookup_check"])
    /\ UNCHANGED <<aux, tokens, db, faults, registered, deleted>>

CreateUser(p, email, password) ==
    \E token \in tokens :
        /\ Free(p)
        /\ IdsLeft(token.company_id)
        /\ LET r == [Fresh(p, "create_user") EXCEPT !.email = email, !.password = password,
                         !.company_id = tenant_claim(token),
                         !.session = tenant_claim(token), !.guarded = TRUE,
                         !.pc = "lookup_check"]
           IN  rq' = IF dependencies(token) # NoResp
                     THEN Step(p, Depends(r, token))
                     ELSE StartRegistration(p, email, r)
        /\ UNCHANGED <<aux, tokens, db, faults, registered, deleted>>

\* register acquires its tenant session with get_tenant_session, which checks nothing
register_session(r) ==
    [r EXCEPT !.pc = "tenant_check", !.session = r.company_id, !.guarded = FALSE,
              !.missing = ~schema_exists(schemas, r.company_id)]

LookupCheck(p) ==
    /\ At(p, "lookup_check")
    /\ LET r == [rq[p] EXCEPT !.seen = registered[rq[p].email]]
       IN  rq' = Step(p,
                IF lookup_get_by_email(lookup, r.email) # 0
                THEN Finish([r EXCEPT !.race = TRUE], EmailAlreadyRegistered, "email_taken")
                ELSE IF r.op = "register" THEN register_session(r)
                ELSE [r EXCEPT !.pc = "tenant_check"])
    /\ UNCHANGED <<aux, tokens, db, faults, registered, deleted>>

TenantCheck(p) ==
    /\ At(p, "tenant_check")
    /\ LET r == rq[p]
       IN  rq' = Step(p,
                IF ~TablesReady(schemas, r.session)
                THEN Finish(r, InternalServerError, "schema_unavailable")
                ELSE IF user_get_by_email(users[r.session], r.email) # {}
                     THEN Finish([r EXCEPT !.race = TRUE], EmailAlreadyRegistered,
                                 "email_taken")
                ELSE [r EXCEPT !.pc = "user_write"])
    /\ UNCHANGED <<aux, tokens, db, faults, registered, deleted>>

\* crud_user.create: INSERT, commit, refresh
UserWrite(p) ==
    /\ At(p, "user_write")
    /\ LET r == rq[p]
           s == r.session
       IN  IF ~TablesReady(schemas, s)
           THEN /\ rq' = Step(p, Finish(r, InternalServerError, "schema_unavailable"))
                /\ UNCHANGED users
           ELSE IF user_get_by_email(users[s], r.email) # {}
           THEN /\ rq' = Step(p, Finish([r EXCEPT !.race = TRUE], InternalServerError,
                                        "unique_violation"))
                /\ UNCHANGED users
           ELSE /\ users' = [users EXCEPT ![s] = user_create(@, NextUserId(s), r.email, r.password)]
                /\ rq' = Step(p, [r EXCEPT !.user_id = NextUserId(s), !.pc = "lookup_write"])
    /\ UNCHANGED <<aux, tokens, companies, nextCompanyId, schemas, seeds, lookup, faults,
                   registered, deleted>>

\* the account that registration r, succeeding, leaves: none when delete_user has removed
\* its user row in the meantime
Account(r) ==
    IF user_get(users[r.session], r.user_id) = {} THEN NoAccount
    ELSE [company_id |-> r.company_id, password |-> r.password]

\* the lookup insert hit the primary key: the email has a row
Conflict(r) == [r EXCEPT !.race = lookup[r.email] # 0]

\* what each handler does when crud_lookup.create_entry raises
register_lookup_failed(r) ==
    Finish([r EXCEPT !.lookup_failed = TRUE,
                     !.post = user_get(users[r.session], r.user_id) = {}],
           InternalServerError, "lookup_failed")

\* what create_user writes to its logger while it compensates
Logged(level, event) == [level |-> level, event |-> event]

RollingBack == Logged("error", "Failed to create lookup entry. Rolling back user creation")

\* variant: a failed compensation logged like a successful one
rollback_logged_quietly(rolled_back) == Logged("info", "Successfully rolled back user creation")

rollback_logged(rolled_back) ==
    IF rolled_back THEN Logged("info", "Successfully rolled back user creation")
    ELSE Logged("critical", "CRITICAL: Failed to rollback user creation")

create_user_lookup_failed(r) ==
    [r EXCEPT !.lookup_failed = TRUE, !.pc = "rollback", !.cause = "lookup_failed",
              !.log = Append(@, RollingBack)]

LookupWrite(p) ==
    /\ At(p, "lookup_write")
    /\ LET r == rq[p]
           accepted == create_entry_accepted(lookup, companies, r.email, r.company_id)
       IN  \E fail \in (IF accepted THEN FaultChoices ELSE {FALSE}) :
            /\ Inject(fail)
            /\ IF accepted /\ ~fail
               THEN /\ lookup' = create_entry(lookup, r.email, r.company_id)
                    /\ registered' = [registered EXCEPT ![r.email] = Account(r)]
                    /\ deleted' = deleted \ {r.email}
                    /\ rq' = Step(p, Finish(r, Created, "ok"))
               ELSE /\ rq' = Step(p, IF r.op = "register"
                                     THEN register_lookup_failed(Conflict(Hit(r, fail)))
                                     ELSE create_user_lookup_failed(Conflict(Hit(r, fail))))
                    /\ UNCHANGED <<lookup, registered, deleted>>
    /\ UNCHANGED <<aux, tokens, companies, nextCompanyId, schemas, seeds, users>>

\* create_user's compensation: crud_user.delete of the row it wrote
Rollback(p) ==
    /\ At(p, "rollback")
    /\ LET r == rq[p]
           s == r.session
           can == TablesReady(schemas, s) /\ user_get(users[s], r.user_id) # {}
       IN  \E fail \in (IF can THEN FaultChoices ELSE {FALSE}) :
            /\ Inject(fail)
            /\ users' = IF can /\ ~fail
                        THEN [users EXCEPT ![s] = user_delete(@, r.user_id)]
                        ELSE users
            /\ rq' = Step(p, Finish([Hit(r, fail) EXCEPT
                                        !.post = user_get(users'[s], r.user_id) = {},
                                        !.log = Append(@, rollback_logged(can /\ ~fail))],
                                    LookupCreationFailed,
                                    IF can /\ ~fail THEN "rolled_back" ELSE "critical"))
    /\ UNCHANGED <<aux, tokens, companies, nextCompanyId, schemas, seeds, lookup,
                   registered, deleted>>

\* the response is delivered; an overlapping registration of the same email learns how
\* this one ended
Return(p) ==
    /\ rq[p].pc = "done"
    /\ rq' = [q \in Requests |->
                IF q = p THEN Idle
                ELSE IF rq[p].op \in RegistrationOps /\ rq[p].overlap /\ q \in Peers(p, rq[p].email)
                     THEN [rq[q] EXCEPT !.peer = Outcome(rq[p])]
                ELSE rq[q]]
    /\ UNCHANGED <<aux, tokens, db, faults, registered, deleted>>

\* ---- auth.py login ----
\* variant: login telling the caller that the email is unknown
login_no_lookup_revealed(r) == Finish(r, UserNotFound, "no_lookup")

\* no lookup row for the email
login_no_lookup(r) == Finish(r, InvalidCredentials, "no_lookup")

Login(p, email, password) ==
    /\ Free(p)
    /\ LET r == [Fresh(p, "login") EXCEPT !.email = email, !.password = password,
                     !.seen = registered[email], !.after_delete = email \in deleted]
           company_id == lookup_get_by_email(lookup, email)
       IN  rq' = Step(p,
                IF company_id = 0
                THEN login_no_lookup(r)
                ELSE [r EXCEPT !.pc = "authenticate", !.company_id = company_id,
                               !.session = company_id, !.guarded = FALSE,
                               !.missing = ~schema_exists(schemas, company_id)])
    /\ UNCHANGED <<aux, tokens, db, faults, registered, deleted>>

login_rejected(rows, email) ==
    IF user_get_by_email(rows, email) = {} THEN "no_user" ELSE "wrong_password"

\* crud_user.authenticate returned None
login_not_authenticated(r, rows) ==
    Finish(r, InvalidCredentials, login_rejected(rows, r.email))

LoginAuthenticate(p) ==
    /\ At(p, "authenticate")
    /\ LET r == rq[p]
           rows == users[r.session]
           found == authenticate(rows, r.email, r.password)
       IN  IF ~TablesReady(schemas, r.session)
           THEN /\ rq' = Step(p, Finish(r, InternalServerError, "schema_unavailable"))
                /\ UNCHANGED tokens
           ELSE IF found = {}
           THEN /\ rq' = Step(p, login_not_authenticated(r, rows))
                /\ UNCHANGED tokens
           ELSE IF \E u \in found : ~u.is_active
           THEN /\ rq' = Step(p, Finish(r, InactiveUser, "inactive"))
                /\ UNCHANGED tokens
           ELSE LET token == create_access_token(r.email, r.company_id)
                IN  /\ rq' = Step(p, Finish(r, LoginOk(token), "ok"))
                    /\ tokens' = tokens \cup {token}
    /\ UNCHANGED <<aux, db, faults, registered, deleted>>

\* ---- users.py delete_user ----
DeleteUser(p, user_id) ==
    \E token \in tokens :
        /\ Free(p)
        /\ LET r == [Fresh(p, "delete_user") EXCEPT !.user_id = user_id,
                         !.session = tenant_claim(token), !.guarded = TRUE,
                         !.pc = "du_get"]
           IN  rq' = Step(p, Depends(r, token))
        /\ UNCHANGED <<aux, tokens, db, faults, registered, deleted>>

DeleteUserGet(p) ==
    /\ At(p, "du_get")
    /\ LET r == rq[p]
           found == user_get(users[r.session], r.user_id)
       IN  rq' = Step(p,
                IF ~TablesReady(schemas, r.session)
                THEN Finish(r, InternalServerError, "schema_unavailable")
                ELSE IF found = {} THEN Finish(r, UserNotFound, "not_found")
                ELSE [r EXCEPT !.pc = "du_delete", !.email = (CHOOSE u \in found : TRUE).email])
    /\ UNCHANGED <<aux, tokens, db, faults, registered, deleted>>

DeleteUserRow(p) ==
    /\ At(p, "du_delete")
    /\ LET r == rq[p]
           s == r.session
       IN  IF ~TablesReady(schemas, s)
           THEN /\ rq' = Step(p, Finish(r, InternalServerError, "schema_unavailable"))
                /\ UNCHANGED <<users, registered>>
           ELSE /\ users' = [users EXCEPT ![s] = user_delete(@, r.user_id)]
                /\ registered' = [registered EXCEPT ![r.email] = NoAccount]
                /\ rq' = StepDeleting(p, r.email, [r EXCEPT !.pc = "du_lookup"])
    /\ UNCHANGED <<aux, tokens, companies, nextCompanyId, schemas, seeds, lookup,
                   faults, deleted>>

DeleteUserLookup(p) ==
    /\ At(p, "du_lookup")
    /\ LET r == rq[p]
       IN  \E fail \in FaultChoices :
            /\ Inject(fail)
            /\ IF fail
               THEN /\ rq' = Step(p, Finish(Hit(r, fail), InternalServerError, "fault"))
                    /\ UNCHANGED <<lookup, deleted, registered>>
               ELSE /\ lookup' = delete_by_email(lookup, r.email)
                    /\ deleted' = deleted \cup {r.email}
                    /\ registered' = [registered EXCEPT ![r.email] = NoAccount]
                    /\ rq' = StepDeleting(p, r.email,
                                          Finish([r EXCEPT !.removed = lookup[r.email]],
                                                 NoContent, "ok"))
    /\ UNCHANGED <<aux, tokens, companies, nextCompanyId, schemas, seeds, users>>

\* ---- database.py create_company_schema, as called by crud_company.create and bootstrap_admin ----
\* the exception of a create_company_schema called on its own
SchemaCreationRaised == [status |-> 500, detail |-> "create_company_schema raised"]

provisioning_failed(r) ==
    IF r.op = "create_company"
    THEN [r EXCEPT !.pc = "compensate", !.cause = "provisioning_failed"]
    ELSE IF r.op = "create_company_schema"
    THEN Finish(r, SchemaCreationRaised, "provisioning_failed")
    ELSE Finish(r, ExitError, "provisioning_failed")

\* session.add_all of the three lists of reference rows and the commit: one more batch
seed_tenant_reference_data(sd, company_id) == [sd EXCEPT ![company_id] = @ + 1]

\* CREATE SCHEMA IF NOT EXISTS
create_schema(cat, company_id) ==
    [cat EXCEPT ![company_id] = IF @ = "none" THEN "schema" ELSE @]

\* TenantBase.metadata.create_all under the schema's search path
create_tables(cat, company_id) == [cat EXCEPT ![company_id] = "tables"]

ProvisionSchema(p) ==
    /\ At(p, "prov_schema")
    /\ LET r == rq[p]
       IN  \E fail \in FaultChoices :
            /\ Inject(fail)
            /\ IF fail
               THEN /\ rq' = Step(p, provisioning_failed(Hit(r, fail)))
                    /\ UNCHANGED schemas
               ELSE /\ schemas' = create_schema(schemas, r.company_id)
                    /\ rq' = Step(p, [r EXCEPT !.pc = "prov_tables"])
    /\ UNCHANGED <<aux, tokens, companies, nextCompanyId, seeds, users, lookup,
                   registered, deleted>>

ProvisionTables(p) ==
    /\ At(p, "prov_tables")
    /\ LET r == rq[p]
           can == schema_exists(schemas, r.company_id)
       IN  \E fail \in (IF can THEN FaultChoices ELSE {FALSE}) :
            /\ Inject(fail)
            /\ IF can /\ ~fail
               THEN /\ schemas' = create_tables(schemas, r.company_id)
                    /\ rq' = Step(p, [r EXCEPT !.pc = "prov_seed"])
               ELSE /\ rq' = Step(p, provisioning_failed(Hit(r, fail)))
                    /\ UNCHANGED schemas
    /\ UNCHANGED <<aux, tokens, companies, nextCompanyId, seeds, users, lookup,
                   registered, deleted>>

\* seed_tenant_reference_data through a tenant session; the last step of crud_company.create
ProvisionSeed(p) ==
    /\ At(p, "prov_seed")
    /\ LET r == rq[p]
           c == r.company_id
           can == TablesReady(schemas, c)
       IN  \E fail \in (IF can THEN FaultChoices ELSE {FALSE}) :
            /\ Inject(fail)
            /\ IF can /\ ~fail
               THEN /\ seeds' = seed_tenant_reference_data(seeds, c)
                    /\ rq' = Step(p, IF r.op = "create_company"
                                     THEN Finish(r, Created, "ok")
                                     ELSE IF r.op = "create_company_schema"
                                     THEN Finish(r, NoResp, "ok")
                                     ELSE [r EXCEPT !.pc = "b_user", !.session = c])
               ELSE /\ rq' = Step(p, provisioning_failed(Hit(r, fail)))
                    /\ UNCHANGED seeds
    /\ UNCHANGED <<aux, tokens, companies, nextCompanyId, schemas, users, lookup,
                   registered, deleted>>

\* ---- crud_company.py create ----
CreateCompany(p) ==
    \E token \in tokens :
        /\ Free(p)
        /\ nextCompanyId + Cardinality(CompanyCreators) <= MaxCompany
        /\ rq' = Step(p, Depends([Fresh(p, "create_company") EXCEPT !.pc = "cc_insert"], token))
        /\ UNCHANGED <<aux, tokens, db, faults, registered, deleted>>

CompanyInsert(p) ==
    /\ At(p, "cc_insert")
    /\ companies' = companies \cup {nextCompanyId}
    /\ nextCompanyId' = nextCompanyId + 1
    /\ rq' = Step(p, [rq[p] EXCEPT !.company_id = nextCompanyId, !.pc = "prov_schema"])
    /\ UNCHANGED <<aux, tokens, schemas, seeds, users, lookup, faults,
                   registered, deleted>>

\* variant: a create that leaves the company row behind
compensate_company_skipped(comps, company_id) == comps

\* the except branch of create: delete the company row, then raise
compensate_company(comps, company_id) == comps \ {company_id}

CompanyCompensate(p) ==
    /\ At(p, "compensate")
    /\ LET r == rq[p]
       IN  /\ companies' = compensate_company(companies, r.company_id)
           /\ lookup' = cascade_company(lookup, r.company_id)
           /\ rq' = Step(p, Finish([r EXCEPT !.post = r.company_id \notin companies'],
                                   ProvisioningFailed, "provisioning_failed"))
    /\ UNCHANGED <<aux, tokens, nextCompanyId, schemas, seeds, users, faults,
                   registered, deleted>>

\* ---- crud_company.py delete, behind companies.py delete_company ----
DeleteCompany(p, company_id) ==
    \E token \in tokens :
        /\ Free(p)
        /\ LET r == [Fresh(p, "delete_company") EXCEPT !.company_id = company_id,
                         !.pc = "dc_get"]
           IN  rq' = Step(p, Depends(r, token))
        /\ UNCHANGED <<aux, tokens, db, faults, registered, deleted>>

DeleteCompanyGet(p) ==
    /\ At(p, "dc_get")
    /\ LET r == rq[p]
       IN  rq' = Step(p,
                IF r.company_id \notin companies
                THEN Finish(r, CompanyNotFound, "company_missing")
                ELSE [r EXCEPT !.pc = "dc_count"])
    /\ UNCHANGED <<aux, tokens, db, faults, registered, deleted>>

\* the users check of delete: refuse while lookup rows map to the company
delete_refused(user_count) == user_count > 0

DeleteCompanyCount(p) ==
    /\ At(p, "dc_count")
    /\ LET r == rq[p]
           user_count == count_by_company(lookup, r.company_id)
       IN  rq' = Step(p,
                IF delete_refused(user_count)
                THEN Finish([r EXCEPT !.count = user_count], CompanyNotEmpty, "not_empty")
                ELSE [r EXCEPT !.count = user_count, !.pc = "dc_drop"])
    /\ UNCHANGED <<aux, tokens, db, faults, registered, deleted>>

\* variant: a delete that leaves the schema in place
drop_schema_skipped(cat, company_id) == cat

\* DROP SCHEMA IF EXISTS ... CASCADE
drop_schema(cat, company_id) == [cat EXCEPT ![company_id] = "none"]

DeleteCompanyDrop(p) ==
    /\ At(p, "dc_drop")
    /\ LET c == rq[p].company_id
       IN  /\ schemas' = drop_schema(schemas, c)
           /\ users' = [users EXCEPT ![c] = IF schemas'[c] = "none" THEN {} ELSE @]
           /\ seeds' = [seeds EXCEPT ![c] = IF schemas'[c] = "none" THEN 0 ELSE @]
           /\ registered' = [e \in Emails |->
                                IF registered[e].company_id = c THEN NoAccount
                                ELSE registered[e]]
           /\ rq' = Step(p, [rq[p] EXCEPT !.pc = "dc_record",
                                          !.dropped = schema_exists(schemas, c),
                                          !.held = users[c] # {}])
    /\ UNCHANGED <<aux, tokens, companies, nextCompanyId, lookup, faults, deleted>>

DeleteCompanyRecord(p) ==
    /\ At(p, "dc_record")
    /\ LET r == rq[p]
           c == r.company_id
       IN  /\ companies' = companies \ {c}
           /\ lookup' = cascade_company(lookup, c)
           /\ rq' = Step(p, Finish([r EXCEPT !.post =
                                       c \notin companies' /\ ~schema_exists(schemas, c)],
                                   NoContent, "ok"))
    /\ UNCHANGED <<aux, tokens, nextCompanyId, schemas, seeds, users, faults,
                   registered, deleted>>

\* ---- bootstrap_admin.py ----
Bootstrap(p, email, password) ==
    /\ Free(p)
    /\ nextCompanyId + Cardinality(CompanyCreators) <= MaxCompany
    /\ \A e \in Emails : lookup[e] = 0
    /\ \A q \in Requests : rq[q].op # "bootstrap"
    /\ companies' = companies \cup {nextCompanyId}
    /\ nextCompanyId' = nextCompanyId + 1
    /\ rq' = Step(p, [Fresh(p, "bootstrap") EXCEPT !.email = email, !.password = password,
                         !.company_id = nextCompanyId, !.pc = "prov_schema"])
    /\ UNCHANGED <<aux, tokens, schemas, seeds, users, lookup, faults,
                   registered, deleted>>

BootstrapUser(p) ==
    /\ At(p, "b_user")
    /\ LET r == rq[p]
           s == r.company_id
       IN  IF ~TablesReady(schemas, s) \/ user_get_by_email(users[s], r.email) # {}
           THEN /\ rq' = Step(p, Finish(r, ExitError, "user_write_failed"))
                /\ UNCHANGED users
           ELSE /\ users' = [users EXCEPT ![s] = user_create(@, NextUserId(s), r.email, r.password)]
                /\ rq' = Step(p, [r EXCEPT !.user_id = NextUserId(s), !.pc = "b_lookup"])
    /\ UNCHANGED <<aux, tokens, companies, nextCompanyId, schemas, seeds, lookup, faults,
                   registered, deleted>>

BootstrapLookup(p) ==
    /\ At(p, "b_lookup")
    /\ LET r == rq[p]
           accepted == create_entry_accepted(lookup, companies, r.email, r.company_id)
       IN  \E fail \in (IF accepted THEN FaultChoices ELSE {FALSE}) :
            /\ Inject(fail)
            /\ IF accepted /\ ~fail
               THEN /\ lookup' = create_entry(lookup, r.email, r.company_id)
                    /\ registered' = [registered EXCEPT ![r.email] = Account(r)]
                    /\ deleted' = deleted \ {r.email}
                    /\ rq' = Step(p, Finish(r, ExitOk, "ok"))
               ELSE /\ rq' = Step(p, Finish([Hit(r, fail) EXCEPT !.lookup_failed = TRUE],
                                           ExitError, "lookup_failed"))
                    /\ UNCHANGED <<lookup, registered, deleted>>
    /\ UNCHANGED <<aux, tokens, companies, nextCompanyId, schemas, seeds, users>>

\* ---- the company lifecycle, from the empty database ----
\* bootstrap, company creation and deletion, and the two handlers that take a tenant
\* session without the existence guard (register, login)
Next ==
    \E p \in Requests :
        \/ \E e \in AdminEmails, pw \in NewPasswords : Bootstrap(p, e, pw)
        \/ BootstrapUser(p)
        \/ BootstrapLookup(p)
        \/ ProvisionSchema(p)
        \/ ProvisionTables(p)
        \/ ProvisionSeed(p)
        \/ \E e \in NewEmails, pw \in NewPasswords, c \in 0..MaxCompany : Register(p, e, pw, c)
        \/ LookupCheck(p)
        \/ TenantCheck(p)
        \/ UserWrite(p)
        \/ LookupWrite(p)
        \/ \E e \in Emails, pw \in Passwords : Login(p, e, pw)
        \/ LoginAuthenticate(p)
        \/ CreateCompany(p)
        \/ CompanyInsert(p)
        \/ CompanyCompensate(p)
        \/ \E c \in Tenants : DeleteCompany(p, c)
        \/ DeleteCompanyGet(p)
        \/ DeleteCompanyCount(p)
        \/ DeleteCompanyDrop(p)
        \/ DeleteCompanyRecord(p)
        \/ Return(p)

Spec == Init /\ [][Next]_vars

\* ---- the identity handlers, over provisioned companies ----
\* the deployment once bootstrap_admin.py has run and the administrator has created the
\* other companies (a state Spec reaches, see ProvisionedReached)
AdminUser(email, password) ==
    [id |-> 1, email |-> email, password_hash |-> get_password_hash(password),
     is_active |-> TRUE]

Provisioned ==
    \E e \in AdminEmails, pw \in NewPasswords :
        /\ companies = Tenants
        /\ nextCompanyId = MaxCompany + 1
        /\ schemas = [t \in Tenants |-> "tables"]
        /\ seeds = [t \in Tenants |-> 1]
        /\ users = [t \in Tenants |-> IF t = 1 THEN {AdminUser(e, pw)} ELSE {}]
        /\ lookup = [x \in Emails |-> IF x = e THEN 1 ELSE 0]
        /\ faults = 0
        /\ tokens = {[sub |-> e, company_id |-> 1]}
        /\ rq = [p \in Requests |-> Idle]
        /\ registered = [x \in Emails |->
                            IF x = e THEN [company_id |-> 1, password |-> pw] ELSE NoAccount]
        /\ deleted = {}
        /\ pool = EmptyPool
        /\ sessions = [s \in SessionSlots |-> NoSession]
        /\ calls = <<>>

NextIdentity ==
    \E p \in Requests :
        \/ \E e \in NewEmails, pw \in NewPasswords, c \in 0..MaxCompany : Register(p, e, pw, c)
        \/ \E e \in NewEmails, pw \in NewPasswords : CreateUser(p, e, pw)
        \/ LookupCheck(p)
        \/ TenantCheck(p)
        \/ UserWrite(p)
        \/ LookupWrite(p)
        \/ Rollback(p)
        \/ \E e \in Emails, pw \in Passwords : Login(p, e, pw)
        \/ LoginAuthenticate(p)
        \/ \E id \in 1..MaxUserId : DeleteUser(p, id)
        \/ DeleteUserGet(p)
        \/ DeleteUserRow(p)
        \/ DeleteUserLookup(p)
        \/ Return(p)

SpecIdentity == Provisioned /\ [][NextIdentity]_vars

\* ---- the sessions on the connection pool ----
tenancy_but_rq == <<companies, nextCompanyId, schemas, seeds, users, lookup, faults, tokens,
                    registered, deleted>>

tenancy == <<companies, nextCompanyId, schemas, seeds, users, lookup, faults, tokens, rq,
             registered, deleted>>

\* the pool has a connection to hand out
available(pl) == pl.idle # <<>> \/ pl.created < pool_size + max_overflow

\* async_session() and the SET search_path that get_session and get_tenant_session execute
\* on it: the statement begins the session's first transaction on a connection of the pool
opened(pl, target) ==
    [NoSession EXCEPT !.state = "open", !.target = target, !.conn = checkout(pl),
                      !.set = search_path_of(target)]

GetSession(s) ==
    /\ sessions[s].state = "none"
    /\ available(pool)
    /\ sessions' = [sessions EXCEPT ![s] = opened(pool, 0)]
    /\ pool' = checked_out(pool)
    /\ UNCHANGED <<tenancy, calls>>

GetTenantSession(s, company_id) ==
    /\ sessions[s].state = "none"
    /\ available(pool)
    /\ get_schema_name(Int(company_id)) # ValueError
    /\ sessions' = [sessions EXCEPT ![s] = opened(pool, company_id)]
    /\ pool' = checked_out(pool)
    /\ UNCHANGED <<tenancy, calls>>

\* a statement of the handler or of a CRUD method on the session (a select, the flush of
\* an insert, the refresh after a commit); without a transaction it begins one on a
\* connection of the pool
Execute(s) ==
    /\ sessions[s].state = "open"
    /\ LET ss == sessions[s]
           c == IF ss.conn # 0 THEN ss.conn ELSE checkout(pool)
       IN  /\ ss.conn = 0 => available(pool)
           /\ pool' = IF ss.conn # 0 THEN pool ELSE checked_out(pool)
           /\ sessions' = [sessions EXCEPT ![s] =
                               [ss EXCEPT !.conn = c, !.ran = effective_path(pool, ss, c)]]
    /\ UNCHANGED <<tenancy, calls>>

\* session.commit(): the transaction's SET outlives it on the connection, and the
\* connection goes back to the pool
Commit(s) ==
    /\ sessions[s].state = "open"
    /\ sessions[s].conn # 0
    /\ LET ss == sessions[s]
       IN  /\ pool' = checked_in([pool EXCEPT !.path[ss.conn] = effective_path(pool, ss, ss.conn)],
                                 ss.conn)
           /\ sessions' = [sessions EXCEPT ![s] =
                               [ss EXCEPT !.conn = 0, !.set = <<>>, !.committed = TRUE]]
    /\ UNCHANGED <<tenancy, calls>>

\* session.close(): a running transaction is rolled back, its SET with it
Close(s) ==
    /\ sessions[s].state = "open"
    /\ pool' = IF sessions[s].conn # 0 THEN checked_in(pool, sessions[s].conn) ELSE pool
    /\ sessions' = [sessions EXCEPT ![s] = NoSession]
    /\ UNCHANGED <<tenancy, calls>>

NextPool ==
    \E s \in SessionSlots :
        \/ GetSession(s)
        \/ \E t \in Tenants : GetTenantSession(s, t)
        \/ Execute(s)
        \/ Commit(s)
        \/ Close(s)

SpecPool == Init /\ [][NextPool]_vars

\* ---- the sessions of auth.py register and login ----
\* public_db comes from Depends(get_db), which FastAPI enters before the handler and exits
\* after it; tenant_db comes from "async for tenant_db in get_tenant_session(...)" in the
\* handler, whose body leaves the loop by return or raise
SessionOps == {"register", "login"}

FreeSlot(s) == sessions[s].state = "none" /\ \A x \in SessionSlots : x < s => sessions[x].state # "none"

\* the sessions request p holds through a generator of the given scope
OwnedBy(p, scope) ==
    {s \in SessionSlots : /\ sessions[s].owner = p /\ sessions[s].scope = scope
                          /\ sessions[s].referenced}

LoginToken == [status |-> 200, detail |-> "bearer"]

\* FastAPI resolves Depends(get_db) and calls the handler
\* (a request slot is taken again once the sessions of its last request are gone, so
\* that owner names one request)
SolveDependencies(p, op) ==
    /\ Free(p)
    /\ \A s \in SessionSlots : sessions[s].owner # p
    /\ \E s \in SessionSlots :
        /\ FreeSlot(s)
        /\ available(pool)
        /\ sessions' = [sessions EXCEPT ![s] =
                            [opened(pool, 0) EXCEPT !.owner = p, !.scope = "dependency",
                                                    !.referenced = TRUE]]
        /\ pool' = checked_out(pool)
    /\ rq' = Step(p, [Fresh(p, op) EXCEPT !.pc = "handler"])
    /\ UNCHANGED <<companies, nextCompanyId, schemas, seeds, users, lookup, faults, tokens,
                   registered, deleted, calls>>

\* the handler leaves before its loop: register's and login's HTTPException on the lookup
\* check
RaiseBeforeLoop(p) ==
    /\ At(p, "handler")
    /\ rq' = Step(p, [rq[p] EXCEPT !.pc = "left", !.cause = "raised"])
    /\ UNCHANGED <<aux, tokens, db, faults, registered, deleted>>

\* async for tenant_db in get_tenant_session(company_id): the first __anext__ runs the
\* generator up to its yield
EnterLoop(p, company_id) ==
    /\ At(p, "handler")
    /\ \E s \in SessionSlots :
        /\ FreeSlot(s)
        /\ available(pool)
        /\ sessions' = [sessions EXCEPT ![s] =
                            [opened(pool, company_id) EXCEPT !.owner = p, !.scope = "handler",
                                                             !.referenced = TRUE]]
        /\ pool' = checked_out(pool)
    /\ rq' = Step(p, [rq[p] EXCEPT !.pc = "loop", !.session = company_id])
    /\ UNCHANGED <<companies, nextCompanyId, schemas, seeds, users, lookup, faults, tokens,
                   registered, deleted, calls>>

\* a statement of the loop body on tenant_db
LoopStatement(p) ==
    /\ At(p, "loop")
    /\ \E s \in OwnedBy(p, "handler") :
        /\ sessions[s].state = "open"
        /\ LET ss == sessions[s]
               c == IF ss.conn # 0 THEN ss.conn ELSE checkout(pool)
           IN  /\ ss.conn = 0 => available(pool)
               /\ pool' = IF ss.conn # 0 THEN pool ELSE checked_out(pool)
               /\ sessions' = [sessions EXCEPT ![s] =
                                   [ss EXCEPT !.conn = c, !.ran = effective_path(pool, ss, c),
                                              !.used_by = @ \cup {p}]]
    /\ rq' = Step(p, [rq[p] EXCEPT !.count = 1])
    /\ UNCHANGED <<companies, nextCompanyId, schemas, seeds, users, lookup, faults, tokens,
                   registered, deleted, calls>>

\* the loop body ends the handler with return or raise: async for sends nothing more to
\* the generator, which stays suspended at its yield and loses its last reference when
\* the handler's frame goes
LeaveLoop(p, how) ==
    /\ At(p, "loop")
    /\ sessions' = [s \in SessionSlots |->
                        IF s \in OwnedBy(p, "handler")
                        THEN [sessions[s] EXCEPT !.referenced = FALSE]
                        ELSE sessions[s]]
    /\ rq' = Step(p, [rq[p] EXCEPT !.pc = "left", !.cause = how])
    /\ UNCHANGED <<pool, calls, tenancy_but_rq>>

\* the event loop's asynchronous generator finalizer: aclose() of a generator nothing
\* refers to any more, run as a task of its own whenever the collector and the loop get
\* to it; the generator's finally closes the session
FinalizeGenerator(s) ==
    /\ sessions[s].state = "open"
    /\ ~sessions[s].referenced
    /\ sessions[s].owner # 0
    /\ pool' = IF sessions[s].conn # 0 THEN checked_in(pool, sessions[s].conn) ELSE pool
    /\ sessions' = [sessions EXCEPT ![s] = NoSession]
    /\ UNCHANGED <<tenancy, calls>>

\* FastAPI exits the dependency: get_db's generator runs on, get_session's finally closes
\* public_db, and the request has ended
ExitDependencies(p) ==
    /\ At(p, "left")
    /\ \E s \in OwnedBy(p, "dependency") :
        /\ pool' = IF sessions[s].conn # 0 THEN checked_in(pool, sessions[s].conn) ELSE pool
        /\ sessions' = [sessions EXCEPT ![s] = NoSession]
    /\ rq' = Step(p, [rq[p] EXCEPT !.pc = "done",
                                   !.resp = IF rq[p].cause = "raised"
                                            THEN (IF rq[p].op = "register"
                                                  THEN EmailAlreadyRegistered
                                                  ELSE InvalidCredentials)
                                            ELSE IF rq[p].op = "register" THEN Created
                                            ELSE LoginToken])
    /\ UNCHANGED <<companies, nextCompanyId, schemas, seeds, users, lookup, faults, tokens,
                   registered, deleted, calls>>

NextScope ==
    \/ \E p \in Requests :
        \/ \E op \in SessionOps : SolveDependencies(p, op)
        \/ RaiseBeforeLoop(p)
        \/ \E t \in Tenants : EnterLoop(p, t)
        \/ LoopStatement(p)
        \/ \E how \in {"returned", "raised"} : LeaveLoop(p, how)
        \/ ExitDependencies(p)
        \/ Return(p)
    \/ \E s \in SessionSlots : FinalizeGenerator(s)

SpecScope == Provisioned /\ [][NextScope]_vars

\* ---- database.py create_company_schema, called again for a provisioned company ----
MaxBatches == 3

\* create_company_schema(company_id, seed_data=True)
CreateCompanySchema(p, company_id) ==
    /\ Free(p)
    /\ seeds[company_id] < MaxBatches
    /\ \A q \in Requests : rq[q].op = "create_company_schema" => seeds[rq[q].company_id] + 1 < MaxBatches
    /\ rq' = Step(p, [Fresh(p, "create_company_schema") EXCEPT
                        !.company_id = company_id, !.pc = "prov_schema",
                        !.count = seeds[company_id]])
    /\ UNCHANGED <<aux, tokens, db, faults, registered, deleted>>

NextProvision ==
    \E p \in Requests :
        \/ \E c \in Tenants : CreateCompanySchema(p, c)
        \/ ProvisionSchema(p)
        \/ ProvisionTables(p)
        \/ ProvisionSeed(p)
        \/ Return(p)

SpecProvision == Provisioned /\ [][NextProvision]_vars

\* ---- users.py update_user, with login ----
\* the bodies of UserUpdate that set the email or is_active
UserUpdates ==
    {[NoUpdate EXCEPT !.fields = {"email"}, !.email = e] : e \in Emails}
        \cup {[NoUpdate EXCEPT !.fields = {"is_active"}, !.is_active = b] : b \in BOOLEAN}

UpdateUser(p, user_id, user_in) ==
    \E token \in tokens :
        /\ Free(p)
        /\ LET r == [Fresh(p, "update_user") EXCEPT !.user_id = user_id, !.obj_in = user_in,
                         !.session = tenant_claim(token), !.guarded = TRUE,
                         !.pc = "uu_get"]
           IN  rq' = Step(p, Depends(r, token))
        /\ UNCHANGED <<aux, tokens, db, faults, registered, deleted>>

UpdateUserGet(p) ==
    /\ At(p, "uu_get")
    /\ LET r == rq[p]
           found == user_get(users[r.session], r.user_id)
       IN  rq' = Step(p,
                IF ~TablesReady(schemas, r.session)
                THEN Finish(r, InternalServerError, "schema_unavailable")
                ELSE IF found = {} THEN Finish(r, UserNotFound, "not_found")
                ELSE [r EXCEPT !.pc = "uu_update", !.email = (CHOOSE u \in found : TRUE).email])
    /\ UNCHANGED <<aux, tokens, db, faults, registered, deleted>>

\* crud_user.update and the handler's return; the lookup table is not written
UpdateUserWrite(p) ==
    /\ At(p, "uu_update")
    /\ LET r == rq[p]
           s == r.session
       IN  IF ~TablesReady(schemas, s) \/ ~user_update_accepted(users[s], r.user_id, r.obj_in)
           THEN /\ rq' = Step(p, Finish(r, InternalServerError, "update_failed"))
                /\ UNCHANGED users
           ELSE /\ users' = [users EXCEPT ![s] = user_update(@, r.user_id, r.obj_in)]
                /\ rq' = Step(p, Finish(r, [status |-> 200, detail |-> "ok"], "ok"))
    /\ UNCHANGED <<aux, tokens, companies, nextCompanyId, schemas, seeds, lookup, faults,
                   registered, deleted>>

NextAccounts ==
    \E p \in Requests :
        \/ \E id \in 1..MaxUserId, user_in \in UserUpdates : UpdateUser(p, id, user_in)
        \/ UpdateUserGet(p)
        \/ UpdateUserWrite(p)
        \/ \E e \in Emails, pw \in Passwords : Login(p, e, pw)
        \/ LoginAuthenticate(p)
        \/ Return(p)

SpecAccounts == Provisioned /\ [][NextAccounts]_vars

\* ---- api/v1/endpoints: the CRUD handlers of the catalog resources ----
ResourceEndpoints ==
    {"tags", "registry_credentials", "components", "registry_providers", "service_types",
     "container_images", "registries", "environments", "teams", "versions"}

Verbs == {"create", "list", "get", "update", "delete"}

\* the dependency that provides the handlers' db parameter, per endpoint module
session_dependency(resource) ==
    IF resource \in {"tags", "registry_credentials", "components", "registries", "environments"}
    THEN "get_db" ELSE "get_tenant_db"

\* the declarative base of the resource's model: TenantBase tables are created in every
\* company schema, PublicBase tables in public
declarative_base(resource) ==
    IF resource \in {"tags", "registry_credentials", "components", "registry_providers",
                     "service_types", "container_images"}
    THEN "TenantBase" ELSE "PublicBase"

Ok == [status |-> 200, detail |-> "ok"]

success(verb) == IF verb = "create" THEN Created ELSE IF verb = "delete" THEN NoContent ELSE Ok

\* the search path of session r.session has a schema that holds the resource's table
table_in_path(r) ==
    IF r.via = "get_tenant_db"
    THEN declarative_base(r.resource) = "TenantBase" /\ TablesReady(schemas, r.session)
    ELSE declarative_base(r.resource) = "PublicBase"

\* an authenticated request to a resource endpoint: its dependencies are resolved, db
\* from the module's session dependency and current_user from get_current_active_user
ResourceCrud(p, resource, verb) ==
    \E token \in tokens :
        /\ Free(p)
        /\ LET via == session_dependency(resource)
               r == [Fresh(p, "resource") EXCEPT
                        !.resource = resource, !.verb = verb, !.via = via,
                        !.company_id = tenant_claim(token),
                        !.session = IF via = "get_tenant_db" THEN tenant_claim(token) ELSE 0,
                        !.guarded = via = "get_tenant_db", !.pc = "crud"]
           IN  rq' = Step(p, Depends(r, token))
        /\ UNCHANGED <<aux, tokens, db, faults, registered, deleted>>

\* the handler's CRUD call on db
ResourceStatement(p) ==
    /\ At(p, "crud")
    /\ LET r == rq[p]
       IN  rq' = Step(p, IF table_in_path(r) THEN Finish(r, success(r.verb), "ok")
                         ELSE Finish(r, InternalServerError, "no_table"))
    /\ UNCHANGED <<aux, tokens, db, faults, registered, deleted>>

NextResources ==
    \E p \in Requests :
        \/ \E e \in ResourceEndpoints, v \in Verbs : ResourceCrud(p, e, v)
        \/ ResourceStatement(p)
        \/ Return(p)

SpecResources == Provisioned /\ [][NextResources]_vars

\* ---- a token from login to the tenant routing of a later request ----
MaxCalls == 3

\* login's last step for a user with this email whose lookup row names company_id
IssueToken(email, company_id) ==
    /\ Len(calls) < MaxCalls
    /\ calls' = Append(calls, [token |-> create_access_token(email, company_id),
                               resolved |-> FALSE, result |-> Returned(0),
                               resp |-> NoResp])
    /\ UNCHANGED <<tenancy, pool, sessions>>

\* a request presents the token: get_tenant_db asks get_company_id_from_token for the
\* tenant to route to; an exception that is no HTTPException ends the request as a 500
ResolveTenant(i) ==
    /\ i \in 1..Len(calls)
    /\ ~calls[i].resolved
    /\ LET result == get_company_id_from_token(calls[i].token)
       IN  calls' = [calls EXCEPT ![i] =
                        [@ EXCEPT !.resolved = TRUE, !.result = result,
                                  !.resp = IF result.raised = "" THEN NoResp
                                           ELSE IF result.raised = "HTTPException 401"
                                           THEN CouldNotValidate
                                           ELSE InternalServerError]]
    /\ UNCHANGED <<tenancy, pool, sessions>>

NextToken ==
    \/ \E e \in Emails, c \in Tenants : IssueToken(e, c)
    \/ \E i \in 1..MaxCalls : ResolveTenant(i)

SpecToken == Init /\ [][NextToken]_vars

\* ---- get_schema_name on its own ----
MaxCompanyId == 12

\* what a caller can pass for company_id
CompanyIdValues ==
    {Int(n) : n \in 0..MaxCompanyId} \cup {Int(0 - n) : n \in 1..2}
        \cup {Bool(TRUE), Bool(FALSE), Float(1), Str(<<"1">>), Str(<<"1; DROP SCHEMA public">>), None}

GetSchemaName(company_id) ==
    /\ Len(calls) < MaxCalls
    /\ calls' = Append(calls, [arg |-> company_id, result |-> get_schema_name(company_id)])
    /\ UNCHANGED <<tenancy, pool, sessions>>

NextNamer == \E v \in CompanyIdValues : GetSchemaName(v)

SpecNamer == Init /\ [][NextNamer]_vars

\* ---- properties ----
Done(p, op) == rq[p].pc = "done" /\ rq[p].op = op

DoneRegistration(p) == rq[p].pc = "done" /\ rq[p].op \in RegistrationOps

RowPresent(r) == user_get(users[r.session], r.user_id) # {}

\* Spec reaches the state SpecIdentity starts from
ProvisionedReached == ~Provisioned

\* C1: a registration (register or create_user) whose lookup insert failed after its
\* tenant-local user row was written answers with the lookup-creation-failed error and
\* leaves no tenant-local row behind
C1_LookupFailureCompensated ==
    \A p \in Requests :
        (DoneRegistration(p) /\ rq[p].lookup_failed)
            => (rq[p].resp = LookupCreationFailed /\ ~RowPresent(rq[p]))

\* register ended on a failed lookup insert with its user row still in the tenant
C1_RegisterLeftRow ==
    \E p \in Requests :
        Done(p, "register") /\ rq[p].lookup_failed /\ RowPresent(rq[p])

\* C2: of two registrations of one email that overlapped, never both succeed; and when
\* the email was free but for the two and no storage fault hit either, exactly one succeeds
C2_OneRegistrationWins ==
    \A p \in Requests :
        (DoneRegistration(p) /\ rq[p].overlap /\ rq[p].peer # "")
            => /\ ~(rq[p].cause = "ok" /\ rq[p].peer = "ok")
               /\ (rq[p].free /\ Outcome(rq[p]) # "env" /\ rq[p].peer # "env")
                    => (rq[p].cause = "ok" \/ rq[p].peer = "ok")

\* the second of two overlapping registrations of a free email ends as the loser
C2_Witness ==
    \E p \in Requests :
        /\ DoneRegistration(p) /\ rq[p].overlap /\ rq[p].free
        /\ rq[p].peer = "ok" /\ Outcome(rq[p]) = "race"

\* C3: a registration that consults the lookup table while a registered account of its
\* email lives is rejected with 'Email already registered' and has written no row
C3_RegisteredEmailRejected ==
    \A p \in Requests :
        (DoneRegistration(p) /\ rq[p].seen # NoAccount)
            => /\ rq[p].resp = EmailAlreadyRegistered
               /\ rq[p].cause = "email_taken"
               /\ rq[p].user_id = 0

\* a registration into another tenant than the one the email is registered in is rejected
C3_Witness ==
    \E p \in Requests :
        /\ DoneRegistration(p) /\ rq[p].seen # NoAccount
        /\ rq[p].company_id # rq[p].seen.company_id
        /\ rq[p].resp = EmailAlreadyRegistered

\* C4: when delete_user answers 204 the user's row and the lookup row of its email are
\* gone; while the email is deleted it has no lookup row, and a login that starts then fails
C4_DeletedUserGone ==
    /\ \A p \in Requests :
        (Done(p, "delete_user") /\ rq[p].resp = NoContent)
            => (lookup[rq[p].email] = 0 /\ ~RowPresent(rq[p]))
    /\ \A e \in deleted : lookup[e] = 0
    /\ \A p \in Requests :
        (Done(p, "login") /\ rq[p].after_delete) => rq[p].resp = InvalidCredentials

\* a login with the deleted user's email and password has failed
C4_Witness ==
    \E p \in Requests :
        /\ Done(p, "login") /\ rq[p].after_delete
        /\ rq[p].password \in NewPasswords /\ rq[p].email \in NewEmails

\* C5: a login with the password of the account its email is registered with, while that
\* account lives, succeeds with a token that carries the account's tenant
C5_LoginAfterRegistration ==
    \A p \in Requests :
        (/\ Done(p, "login") /\ rq[p].seen # NoAccount
         /\ rq[p].password = rq[p].seen.password
         /\ registered[rq[p].email] = rq[p].seen)
            => /\ rq[p].resp.status = 200
               /\ tenant_claim(rq[p].resp.token) = rq[p].seen.company_id

\* a login after a registration through the API has succeeded
C5_Witness ==
    \E p \in Requests :
        /\ Done(p, "login") /\ rq[p].email \in NewEmails
        /\ rq[p].seen # NoAccount /\ registered[rq[p].email] = rq[p].seen
        /\ rq[p].resp.status = 200

\* C6: login answers a wrong password for a registered email exactly as it answers an
\* email without lookup row, and the other way round
C6_LoginFailuresAlike ==
    \A p \in Requests :
        /\ (Done(p, "login") /\ rq[p].cause = "wrong_password")
                => rq[p].resp = login_no_lookup(rq[p]).resp
        /\ (Done(p, "login") /\ rq[p].cause = "no_lookup")
                => rq[p].resp = login_not_authenticated(rq[p], {}).resp

\* a login with a wrong password for a registered email has been answered
C6_Witness ==
    \E p \in Requests :
        /\ Done(p, "login") /\ rq[p].cause = "wrong_password"
        /\ registered[rq[p].email] # NoAccount

\* C7: a company deletion that counted no lookup row answers 204 and leaves neither the
\* company's record nor its schema; one that counted some answers with the
\* company-not-empty error and leaves the record and the rows it counted
C7_DeleteCompany ==
    \A p \in Requests :
        (Done(p, "delete_company") /\ rq[p].cause \in {"ok", "not_empty"})
            => IF rq[p].count = 0
               THEN /\ rq[p].resp = NoContent
                    /\ rq[p].company_id \notin companies
                    /\ ~schema_exists(schemas, rq[p].company_id)
               ELSE /\ rq[p].resp = CompanyNotEmpty
                    /\ rq[p].company_id \in companies
                    /\ count_by_company(lookup, rq[p].company_id) = rq[p].count

\* a deletion has been refused because lookup rows map to the company
C7_Refused ==
    \E p \in Requests : Done(p, "delete_company") /\ rq[p].cause = "not_empty"

C9_SessionsGuarded ==
    \A p \in Requests :
        (rq[p].op # "bootstrap" /\ rq[p].session # 0)
            => (rq[p].guarded /\ ~rq[p].missing)

\* a handler holds a tenant session whose schema did not exist when it was handed out
C9_SessionOnMissingSchema ==
    \E p \in Requests : rq[p].op \in {"register", "login"} /\ rq[p].missing

\* C10: every lookup row maps its email to a company whose schema exists
C10_LookupSchemaExists ==
    \A e \in Emails : lookup[e] # 0 => schema_exists(schemas, lookup[e])

\* a lookup row of a company between the DROP SCHEMA and the delete of its record
C10_Dangling ==
    \E e \in Emails, p \in Requests :
        /\ lookup[e] # 0 /\ ~schema_exists(schemas, lookup[e])
        /\ rq[p].op = "delete_company" /\ rq[p].pc = "dc_record"
        /\ rq[p].company_id = lookup[e]

\* C11: no email has tenant-local user rows in two different tenants
C11_EmailInOneTenant ==
    \A e \in Emails :
        Cardinality({t \in Tenants : user_get_by_email(users[t], e) # {}}) <= 1

\* two registrations of one email into two tenants have both returned, one of them after
\* losing the lookup insert, and both tenants hold a user row of the email
C11_RowsInTwoTenants ==
    \E e \in Emails, p \in Requests :
        /\ Done(p, "register") /\ rq[p].email = e /\ rq[p].lookup_failed /\ rq[p].race
        /\ lookup[e] # 0 /\ lookup[e] # rq[p].session
        /\ user_get_by_email(users[lookup[e]], e) # {}
        /\ RowPresent(rq[p])
        /\ \A q \in Requests \ {p} : ~InFlight(rq[q])

\* C12: every statement of a session runs with the search path the session was opened
\* for, the schema of its tenant or public
C12_SearchPathPinned ==
    \A s \in SessionSlots :
        (sessions[s].state = "open" /\ sessions[s].ran # <<>>)
            => sessions[s].ran = search_path_of(sessions[s].target)

\* a statement of a tenant session after its commit (the refresh of crud_user.create) has
\* run with the search path of another tenant
C12_StatementOnOtherTenant ==
    \E s \in SessionSlots, t \in Tenants :
        /\ sessions[s].state = "open" /\ sessions[s].committed
        /\ sessions[s].target \in Tenants /\ t # sessions[s].target
        /\ sessions[s].ran = search_path_of(t)

\* C13: a request that presents a token login issued is routed to the tenant whose id
\* login embedded in the token
C13_TokenRoutesToTenant ==
    \A i \in 1..Len(calls) :
        calls[i].resolved => calls[i].result = Returned(tenant_claim(calls[i].token))

\* the routing of a request with a token of login has ended in a server error
C13_TenantNotDecoded ==
    \E i \in 1..Len(calls) :
        /\ calls[i].resolved /\ tenant_claim(calls[i].token) \in Tenants
        /\ calls[i].result.raised = "AttributeError"
        /\ calls[i].resp = InternalServerError

\* C14: a resource handler whose entity is tenant-scoped reads and writes it through the
\* tenant session of the company of the caller's token
C14_TenantEntityOnTenantSession ==
    \A p \in Requests :
        (/\ rq[p].op = "resource" /\ rq[p].cause # "dependencies"
         /\ declarative_base(rq[p].resource) = "TenantBase")
            => (rq[p].via = "get_tenant_db" /\ rq[p].session = rq[p].company_id)

\* a tags handler has run its CRUD call on the global session
C14_TagsOnGlobalSession ==
    \E p \in Requests :
        /\ Done(p, "resource") /\ rq[p].resource = "tags"
        /\ rq[p].via = "get_db" /\ rq[p].session = 0 /\ rq[p].cause = "no_table"

\* a positive integer, as Python counts integers (bool is a subclass of int)
PositiveInteger(v) == v.type \in {"int", "bool"} /\ v.val > 0

C16_SchemaExistsFollows ==
    [][\A p \in Requests :
        /\ (/\ rq[p].pc = "prov_seed" /\ rq'[p].pc # "prov_seed"
            /\ rq'[p].cause # "provisioning_failed")
                => schema_exists(schemas', rq[p].company_id)
        /\ (rq[p].pc = "dc_drop" /\ rq'[p].pc = "dc_record")
                => ~schema_exists(schemas', rq[p].company_id)]_vars

\* a company deletion has dropped the schema that provisioning had created
C16_Witness ==
    \E p \in Requests :
        /\ rq[p].op = "delete_company" /\ rq[p].pc = "dc_record" /\ rq[p].dropped
        /\ ~schema_exists(schemas, rq[p].company_id)

\* C17: a registration whose lookup insert failed on the row a concurrent registration
\* of its email had inserted answers 'Email already registered' and leaves no
\* tenant-local row of its own
C17_ConflictReportedAsEmailTaken ==
    \A p \in Requests :
        (DoneRegistration(p) /\ rq[p].lookup_failed /\ rq[p].race)
            => (rq[p].resp = EmailAlreadyRegistered /\ ~RowPresent(rq[p]))

\* create_user lost the lookup insert to a concurrent registration, removed its row and
\* answered with the server error
C17_ConflictReportedAsServerError ==
    \E p \in Requests :
        /\ Done(p, "create_user") /\ rq[p].lookup_failed /\ rq[p].race
        /\ ~rq[p].faulted /\ ~RowPresent(rq[p])
        /\ rq[p].resp = LookupCreationFailed

\* C18: company deletion never drops a schema that holds a tenant-local user row, a
\* registration between its user write and its lookup write included
C18_NoDropWithUsers ==
    \A p \in Requests : rq[p].op = "delete_company" => ~rq[p].held

\* a deletion dropped the schema while a registration into the company stood between
\* its user write and its lookup write
C18_DroppedUnderRegistration ==
    \E p, q \in Requests :
        /\ rq[p].op = "delete_company" /\ rq[p].pc = "dc_record" /\ rq[p].held
        /\ rq[q].op = "register" /\ rq[q].pc = "lookup_write"
        /\ rq[q].session = rq[p].company_id

LogLevels(r) == {r.log[i].level : i \in DOMAIN r.log}

\* C19: a create_user whose lookup insert failed always logs the failure, never answers
\* success, and when its compensating delete failed too (its row is still in the tenant)
\* it has logged a critical entry, no successful-rollback entry, and answers 500
C19_FailedRollbackIsCritical ==
    \A p \in Requests :
        (Done(p, "create_user") /\ rq[p].lookup_failed)
            => /\ RollingBack \in {rq[p].log[i] : i \in DOMAIN rq[p].log}
               /\ rq[p].resp # Created
               /\ Len(rq[p].log) = 2
               /\ RowPresent(rq[p])
                    => /\ LogLevels(rq[p]) = {"error", "critical"}
                       /\ rq[p].resp.status = 500

\* create_user ended with its lookup insert and its compensating delete both failed
C19_Witness ==
    \E p \in Requests :
        /\ Done(p, "create_user") /\ rq[p].lookup_failed /\ RowPresent(rq[p])
        /\ "critical" \in LogLevels(rq[p])

\* the email has a lookup row and the tenant it names holds no user row of the email
LookupWithoutUser(email) ==
    /\ lookup[email] # 0
    /\ user_get_by_email(users[lookup[email]], email) = {}

\* C20: when delete_user has ended after deleting the tenant-local user row, with success
\* or with an error in its lookup step, the user's email has no lookup row without a
\* user row
C20_OnlyMissingLookup ==
    \A p \in Requests :
        (Done(p, "delete_user") /\ rq[p].cause \in {"ok", "fault"})
            => ~LookupWithoutUser(rq[p].email)

\* delete_user ended with an error in its lookup step: the user row is gone and the
\* lookup row of the email remains
C20_LookupLeftBehind ==
    \E p \in Requests :
        /\ Done(p, "delete_user") /\ rq[p].cause = "fault" /\ rq[p].resp.status = 500
        /\ LookupWithoutUser(rq[p].email)

\* C21: when a register or login request has ended, every session it acquired, the
\* tenant session of its handler included, is closed; and no session has run statements
\* of two requests
C21_SessionsClosedAtReturn ==
    /\ \A p \in Requests :
        rq[p].pc = "done"
            => \A s \in SessionSlots : sessions[s].owner = p => sessions[s].state # "open"
    /\ \A s \in SessionSlots : sessions[s].used_by \subseteq {sessions[s].owner}

\* a request has ended while the tenant session its handler took is open, its generator
\* suspended at the yield
C21_TenantSessionOutlivesRequest ==
    \E p \in Requests, s \in SessionSlots :
        /\ rq[p].pc = "done" /\ rq[p].op \in SessionOps
        /\ sessions[s].owner = p /\ sessions[s].scope = "handler"
        /\ sessions[s].state = "open" /\ ~sessions[s].referenced
        /\ sessions[s].used_by = {p}

\* C22: a create_company_schema that ran on a provisioned company and ended, completely
\* or after a failed step, leaves the company with its schema, its tables and the one
\* batch of reference rows of the first run
C22_ProvisioningIdempotent ==
    \A p \in Requests :
        Done(p, "create_company_schema")
            => /\ schemas[rq[p].company_id] = "tables"
               /\ seeds[rq[p].company_id] = 1

\* a second create_company_schema has completed on a provisioned company and the
\* reference rows are there twice
C22_SeededTwice ==
    \E p \in Requests :
        /\ Done(p, "create_company_schema") /\ rq[p].cause = "ok" /\ rq[p].count = 1
        /\ schemas[rq[p].company_id] = "tables"
        /\ seeds[rq[p].company_id] = 2

\* ---- models: the tables of the two declarative bases ----
\* the tables registered on TenantBase.metadata, the metadata create_company_schema
\* creates in a company schema
TenantBaseTables ==
    {"components", "component_teams", "component_tags", "component_container_images",
     "component_versions", "container_images", "registry_credentials", "registry_providers",
     "service_types", "tags"}

\* CloudProvider, whose rows the seeding writes through the tenant session
CloudProviderTables == {"cloud_providers"}

\* the tables of the models declared on Base = PublicBase
PublicBaseTables ==
    {"users", "teams", "versions", "registries", "environments", "user_company_lookup"}

\* TenantBase.metadata.create_all under the search path of the company's schema
created_tables(cat, company_id) ==
    IF cat[company_id] = "tables" THEN TenantBaseTables \cup CloudProviderTables ELSE {}

\* the tables the tenant sessions are used on: users by register, login, get_current_user
\* and the users endpoints, the others by the endpoint modules that depend on get_tenant_db
TenantSessionTables ==
    {"users", "cloud_providers"}
        \cup {r \in ResourceEndpoints : session_dependency(r) = "get_tenant_db"}

\* C23: when company creation has returned the company, its schema holds a table for
\* every entity the tenant sessions read or write, the users table included
C23_TenantTablesComplete ==
    \A p \in Requests :
        (Done(p, "create_company") /\ rq[p].resp = Created)
            => TenantSessionTables \subseteq created_tables(schemas, rq[p].company_id)

\* company creation has returned a company whose schema has the TenantBase tables and
\* no users table
C23_NoUsersTable ==
    \E p \in Requests :
        /\ Done(p, "create_company") /\ rq[p].resp = Created
        /\ TenantBaseTables \subseteq created_tables(schemas, rq[p].company_id)
        /\ "users" \notin created_tables(schemas, rq[p].company_id)
        /\ "users" \in PublicBaseTables

\* C24: the bootstrap script ends like the request-driven creation of a company and of a
\* user: when its provisioning failed the company record is gone, and when its lookup
\* write failed the administrator's tenant-local row is gone
C24_BootstrapCompensates ==
    \A p \in Requests :
        Done(p, "bootstrap") =>
            /\ rq[p].cause = "provisioning_failed" => rq[p].company_id \notin companies
            /\ rq[p].lookup_failed
                    => user_get(users[rq[p].company_id], rq[p].user_id) = {}

\* the script has ended on a failed provisioning with its company record in place
C24_BootstrapLeftCompany ==
    \E p \in Requests :
        /\ Done(p, "bootstrap") /\ rq[p].cause = "provisioning_failed"
        /\ rq[p].resp = ExitError
        /\ rq[p].company_id \in companies

\* the script has ended on a failed lookup write with the administrator's row in place
C24_BootstrapLeftAdmin ==
    \E p \in Requests :
        /\ Done(p, "bootstrap") /\ rq[p].lookup_failed
        /\ user_get(users[rq[p].company_id], rq[p].user_id) # {}
        /\ lookup[rq[p].email] = 0

\* C25: a login for the email of a deactivated user gets no token: with the user's
\* password it is answered 'Inactive user', with another password 'Incorrect email or
\* password'
C25_NoTokenForDeactivated ==
    \A p \in Requests :
        (Done(p, "login") /\ rq[p].session # 0 /\ TablesReady(schemas, rq[p].session))
            => \A u \in user_get_by_email(users[rq[p].session], rq[p].email) :
                ~u.is_active
                    => rq[p].resp = (IF verify_password(rq[p].password, u.password_hash)
                                     THEN InactiveUser ELSE InvalidCredentials)

\* a deactivated user's login with the right password has been refused as inactive
C25_Witness ==
    \E p \in Requests :
        /\ Done(p, "login") /\ rq[p].session # 0 /\ rq[p].resp = InactiveUser
        /\ \E u \in user_get_by_email(users[rq[p].session], rq[p].email) :
            ~u.is_active /\ verify_password(rq[p].password, u.password_hash)

\* no request is in flight
Quiescent == \A p \in Requests : rq[p].op = "idle"

\* C26: with no request in flight and no storage fault injected, an email maps to a
\* company in the lookup table exactly when the company's schema holds a user row of it
C26_LookupMatchesUsers ==
    (Quiescent /\ faults = 0)
        => \A e \in Emails, t \in Tenants :
            lookup[e] = t <=> user_get_by_email(users[t], e) # {}

\* at rest, without faults, a tenant holds a user row of an email the lookup table maps
\* elsewhere or nowhere
C26_RowWithoutLookup ==
    /\ Quiescent /\ faults = 0
    /\ \E e \in Emails, t \in Tenants :
        user_get_by_email(users[t], e) # {} /\ lookup[e] # t

\* C27: when update_user has updated a user, the user's email has a lookup row mapping
\* to the user's company, and an email the update replaced has none
C27_UpdateKeepsLookup ==
    \A p \in Requests :
        (Done(p, "update_user") /\ rq[p].cause = "ok")
            => LET changed == "email" \in rq[p].obj_in.fields /\ rq[p].obj_in.email # rq[p].email
                   current == IF changed THEN rq[p].obj_in.email ELSE rq[p].email
               IN  /\ lookup[current] = rq[p].session
                   /\ changed => lookup[rq[p].email] = 0

\* an update has changed a user's email: the lookup row still names the previous email
\* and the new email has none
C27_StaleLookup ==
    \E p \in Requests :
        /\ Done(p, "update_user") /\ rq[p].cause = "ok"
        /\ "email" \in rq[p].obj_in.fields /\ rq[p].obj_in.email # rq[p].email
        /\ user_get_by_email(users[rq[p].session], rq[p].obj_in.email) # {}
        /\ lookup[rq[p].email] = rq[p].session
        /\ lookup[rq[p].obj_in.email] = 0

\* C28: delete_user removes a lookup row only when the row maps to the company the user
\* was deleted from
C28_RemovesOwnLookupOnly ==
    \A p \in Requests :
        Done(p, "delete_user") => rq[p].removed \in {0, rq[p].session}

\* a user of one company has been deleted and the lookup row of the email, which mapped
\* to another company, has gone with it
C28_RemovedOtherTenantsLookup ==
    \E p \in Requests :
        /\ Done(p, "delete_user") /\ rq[p].resp = NoContent
        /\ rq[p].removed \in Tenants \ {rq[p].session}
        /\ lookup[rq[p].email] = 0
        /\ user_get_by_email(users[rq[p].removed], rq[p].email) # {}

\* C29: when company creation answers 201 the company's record and its schema both
\* exist, and with no request in flight no schema exists without its company record
C29_RecordAndSchemaTogether ==
    /\ \A p \in Requests :
        (Done(p, "create_company") /\ rq[p].resp = Created)
            => /\ rq[p].company_id \in companies
               /\ schema_exists(schemas, rq[p].company_id)
    /\ Quiescent => \A c \in Tenants : schema_exists(schemas, c) => c \in companies

\* company creation has answered 201 for a company whose record a concurrent delete has
\* removed: the schema stands without a record
C29_CreatedWithoutRecord ==
    \E p \in Requests :
        /\ Done(p, "create_company") /\ rq[p].resp = Created /\ ~rq[p].faulted
        /\ faults = 0
        /\ rq[p].company_id \notin companies
        /\ schema_exists(schemas, rq[p].company_id)

\* C30: when company creation has answered that provisioning failed, neither the
\* company's record nor its schema exists
C30_FailedCreationLeavesNothing ==
    \A p \in Requests :
        (Done(p, "create_company") /\ rq[p].resp = ProvisioningFailed)
            => /\ rq[p].company_id \notin companies
               /\ ~schema_exists(schemas, rq[p].company_id)

\* a creation failed after its schema step: its record is gone and its schema is there
C30_SchemaLeftBehind ==
    \E p \in Requests :
        /\ Done(p, "create_company") /\ rq[p].resp = ProvisioningFailed
        /\ rq[p].faulted
        /\ rq[p].company_id \notin companies
        /\ schema_exists(schemas, rq[p].company_id)

====
